---- MODULE Spec2Model ----
(***************************************************************************)
(* LinkValidator: the concurrent link check of LinkValidator.py.           *)
(*                                                                         *)
(* A URL is a sequence of one-character strings.  Spec starts from the     *)
(* state of the script once the normalisation passes have run and          *)
(* read_links has produced `links` (lines 248-267): the main thread then   *)
(* submits one task per link to the pool and collects the futures, while   *)
(* the tasks run process_link / check_link_status.  Every access to an     *)
(* object shared by the threads (verified_links, status_codes, df,         *)
(* detailed_results) is a step of its own: the interpreter may switch      *)
(* threads between any two.  NormSpec is the normalisation passes          *)
(* themselves (lines 248-267) over columns of links not yet normalised,    *)
(* RunsSpec the runs of the script one after the other with the cache file *)
(* between them, ScenarioSpec one batch with the answers of the servers    *)
(* fixed, FairSpec is Spec with every thread scheduled again and again.    *)
(***************************************************************************)
EXTENDS Integers, Sequences, FiniteSets, TLC

(***************************************************************************)
(* Bounds of the model.                                                    *)
(***************************************************************************)
MaxRows == 2

\* Bound on the parameters of the query of a link before normalisation.
MaxParams == 2

\* Bound on the runs of the script that follow one another.
MaxRuns == 2

(***************************************************************************)
(* Strings.                                                                *)
(***************************************************************************)
\* str.find(c): the first position of c in s, 0 when c does not occur.
Find(s, c) ==
    IF \E i \in 1..Len(s) : s[i] = c
    THEN CHOOSE i \in 1..Len(s) : s[i] = c /\ \A j \in 1..(i - 1) : s[j] # c
    ELSE 0

\* The first position >= from of a character of set cs, Len(s)+1 when none.
FindAny(s, cs, from) ==
    IF \E i \in from..Len(s) : s[i] \in cs
    THEN CHOOSE i \in from..Len(s) :
            s[i] \in cs /\ \A j \in from..(i - 1) : s[j] \notin cs
    ELSE Len(s) + 1

StartsWith(s, p) == Len(s) >= Len(p) /\ SubSeq(s, 1, Len(p)) = p

\* The letters and digits of the alphabet of the model.
LowerLetters == {"a", "b", "d", "f", "g", "h", "i", "p", "s", "t", "x"}
UpperLetters == {"D", "F", "H"}
Letters == LowerLetters \cup UpperLetters
Digits == {"1", "2", "3"}
\* urllib.parse.scheme_chars, restricted to the alphabet of the model.
scheme_chars == Letters \cup Digits \cup {"+", "-", "."}

\* str.lower().
lower(s) ==
    [k \in DOMAIN s |-> CASE s[k] = "D" -> "d"
                          [] s[k] = "F" -> "f"
                          [] s[k] = "H" -> "h"
                          [] OTHER -> s[k]]

(***************************************************************************)
(* urllib.parse.urlparse (urlsplit).  The alphabet of the model has no     *)
(* white space, control character, bracket or ";", so the stripping of     *)
(* white space, the IPv6 check and the params field have nothing to act    *)
(* on.                                                                     *)
(***************************************************************************)
urlparse(link) ==
    LET i == Find(link, ":")
        hasScheme == /\ i > 1
                     /\ link[1] \in Letters
                     /\ \A j \in 1..(i - 1) : link[j] \in scheme_chars
        scheme == IF hasScheme THEN lower(SubSeq(link, 1, i - 1)) ELSE <<>>
        rest == IF hasScheme THEN SubSeq(link, i + 1, Len(link)) ELSE link
        hasNetloc == StartsWith(rest, <<"/", "/">>)
        delim == FindAny(rest, {"/", "?", "#"}, 3)
        netloc == IF hasNetloc THEN SubSeq(rest, 3, delim - 1) ELSE <<>>
        rest2 == IF hasNetloc THEN SubSeq(rest, delim, Len(rest)) ELSE rest
        f == Find(rest2, "#")
        rest3 == IF f > 0 THEN SubSeq(rest2, 1, f - 1) ELSE rest2
        fragment == IF f > 0 THEN SubSeq(rest2, f + 1, Len(rest2)) ELSE <<>>
        q == Find(rest3, "?")
        path == IF q > 0 THEN SubSeq(rest3, 1, q - 1) ELSE rest3
        query == IF q > 0 THEN SubSeq(rest3, q + 1, Len(rest3)) ELSE <<>>
    IN [scheme |-> scheme, netloc |-> netloc, path |-> path,
        query |-> query, fragment |-> fragment]

\* shorten_url: f"{scheme}://{netloc}/".
shorten_url(link) ==
    LET parsed_url == urlparse(link)
    IN parsed_url.scheme \o <<":", "/", "/">> \o parsed_url.netloc \o <<"/">>

(***************************************************************************)
(* urllib.parse.parse_qs, urlencode and urlunparse, as                     *)
(* remove_igshid_parameter uses them.  A dict is the sequence of its       *)
(* entries [key, values] in insertion order.                               *)
(***************************************************************************)
\* str.split(sep).
RECURSIVE Split(_, _)
Split(s, sep) ==
    LET i == Find(s, sep)
    IN IF i = 0 THEN <<s>>
       ELSE <<SubSeq(s, 1, i - 1)>> \o Split(SubSeq(s, i + 1, Len(s)), sep)

\* sep.join(parts).
RECURSIVE Join(_, _)
Join(parts, sep) ==
    IF Len(parts) = 0 THEN <<>>
    ELSE IF Len(parts) = 1 THEN parts[1]
    ELSE parts[1] \o <<sep>> \o Join(Tail(parts), sep)

\* quote(): the characters left as they are, and the escapes of the others.
always_safe == Letters \cup Digits \cup {"_", ".", "-", "~"}
escapes ==
    [c \in {"/", "=", ":", "?"} |->
        CASE c = "/" -> <<"%", "2", "F">>
          [] c = "=" -> <<"%", "3", "D">>
          [] c = ":" -> <<"%", "3", "A">>
          [] c = "?" -> <<"%", "3", "F">>]

\* quote_plus(string, safe='').
RECURSIVE quote_plus(_)
quote_plus(s) ==
    IF Len(s) = 0 THEN <<>>
    ELSE (IF s[1] \in always_safe THEN <<s[1]>>
          ELSE IF s[1] = " " THEN <<"+">>
          ELSE escapes[s[1]]) \o quote_plus(Tail(s))

\* s.replace('+', ' ') followed by unquote(): an escape is decoded, any
\* other "%" stays.
RECURSIVE unquote_plus(_)
unquote_plus(s) ==
    IF Len(s) = 0 THEN <<>>
    ELSE IF s[1] = "+" THEN <<" ">> \o unquote_plus(Tail(s))
    ELSE IF s[1] = "%" /\ Len(s) >= 3
            /\ \E c \in DOMAIN escapes : escapes[c] = SubSeq(s, 1, 3)
         THEN <<CHOOSE c \in DOMAIN escapes : escapes[c] = SubSeq(s, 1, 3)>>
                 \o unquote_plus(SubSeq(s, 4, Len(s)))
    ELSE <<s[1]>> \o unquote_plus(Tail(s))

\* One turn of the loop of parse_qsl (keep_blank_values=False): the pair of
\* name_value, or nothing for an empty piece, a piece without "=" and a
\* piece with an empty value.
PairOf(name_value) ==
    LET i == Find(name_value, "=")
        value == SubSeq(name_value, i + 1, Len(name_value))
    IN IF i = 0 \/ Len(value) = 0 THEN <<>>
       ELSE <<[name |-> unquote_plus(SubSeq(name_value, 1, i - 1)),
               value |-> unquote_plus(value)]>>

RECURSIVE PairsOf(_)
PairsOf(pieces) ==
    IF Len(pieces) = 0 THEN <<>>
    ELSE PairOf(pieces[1]) \o PairsOf(Tail(pieces))

parse_qsl(qs) == PairsOf(Split(qs, "&"))

\* parse_qs: the values of a name are gathered under its first occurrence.
RECURSIVE Gather(_, _)
Gather(pairs, parsed_result) ==
    IF Len(pairs) = 0 THEN parsed_result
    ELSE LET name == pairs[1].name
             value == pairs[1].value
             known == \E k \in DOMAIN parsed_result : parsed_result[k].key = name
         IN Gather(Tail(pairs),
                   IF known
                   THEN [k \in DOMAIN parsed_result |->
                           IF parsed_result[k].key = name
                           THEN [parsed_result[k] EXCEPT !.values = Append(@, value)]
                           ELSE parsed_result[k]]
                   ELSE Append(parsed_result, [key |-> name, values |-> <<value>>]))

parse_qs(qs) == Gather(parse_qsl(qs), <<>>)

\* name in query_params, and del query_params[name].
HasKey(query_params, name) == \E k \in DOMAIN query_params : query_params[k].key = name
DelKey(query_params, name) == SelectSeq(query_params, LAMBDA e : e.key # name)

\* urlencode(query, doseq=True): k=v for every value of every key.
RECURSIVE ItemsOf(_, _)
ItemsOf(key, values) ==
    IF Len(values) = 0 THEN <<>>
    ELSE <<quote_plus(key) \o <<"=">> \o quote_plus(values[1])>>
            \o ItemsOf(key, Tail(values))

RECURSIVE AllItems(_)
AllItems(query) ==
    IF Len(query) = 0 THEN <<>>
    ELSE ItemsOf(query[1].key, query[1].values) \o AllItems(Tail(query))

urlencode(query) == Join(AllItems(query), "&")

\* urllib.parse.uses_netloc, restricted to the alphabet of the model.
uses_netloc ==
    {<<"f", "t", "p">>, <<"h", "t", "t", "p">>, <<"h", "t", "t", "p", "s">>,
     <<"s", "h", "t", "t", "p">>, <<"s", "f", "t", "p">>, <<"g", "i", "t">>,
     <<"g", "i", "t", "+", "s", "s", "h">>}

\* urlunparse (urlunsplit), with no params.
urlunparse(parsed) ==
    LET path == parsed.path
        url == IF \/ Len(parsed.netloc) > 0
                  \/ /\ Len(parsed.scheme) > 0
                     /\ parsed.scheme \in uses_netloc
                     /\ ~StartsWith(path, <<"/", "/">>)
               THEN <<"/", "/">> \o parsed.netloc
                       \o (IF Len(path) > 0 /\ path[1] # "/" THEN <<"/">> ELSE <<>>)
                       \o path
               ELSE path
    IN (IF Len(parsed.scheme) > 0 THEN parsed.scheme \o <<":">> ELSE <<>>)
          \o url
          \o (IF Len(parsed.query) > 0 THEN <<"?">> \o parsed.query ELSE <<>>)
          \o (IF Len(parsed.fragment) > 0 THEN <<"#">> \o parsed.fragment ELSE <<>>)

\* str.replace(old, new): every occurrence, from the left.
RECURSIVE Replace(_, _, _)
Replace(s, old, new) ==
    IF Len(s) < Len(old) THEN s
    ELSE IF StartsWith(s, old)
         THEN new \o Replace(SubSeq(s, Len(old) + 1, Len(s)), old, new)
    ELSE <<s[1]>> \o Replace(Tail(s), old, new)

\* sub in s.
Contains(s, sub) ==
    \E k \in 1..(Len(s) - Len(sub) + 1) : SubSeq(s, k, k + Len(sub) - 1) = sub

(***************************************************************************)
(* Values.                                                                 *)
(***************************************************************************)
\* A missing cell (pandas NaN); the empty string is <<>>.
NaN == <<"NaN">>
EmptyString == <<>>

\* The status_code local of check_link_status before line 74 assigns it.
unbound == -1

\* The URLs a cell of the column holds after the normalisation passes (lines
\* 248-257): none starts with "//" or "http://" and none has an igshid
\* parameter.  LinkX shortens to LinkRoot, LinkRoot to itself, and LinkBare
\* has no scheme.
LinkX == <<"h", "t", "t", "p", "s", ":", "/", "/", "a", "/", "x">>
LinkRoot == <<"h", "t", "t", "p", "s", ":", "/", "/", "a", "/">>
LinkBare == <<"a", "/", "x">>
CellURLs == {LinkX, LinkRoot, LinkBare}

\* A column of three links, and what the server of each link answers: 200 for
\* the first two, 404 for the third and for its shortened form.
LinkB == <<"h", "t", "t", "p", "s", ":", "/", "/", "b", "/">>
LinkBX == <<"h", "t", "t", "p", "s", ":", "/", "/", "b", "/", "x">>
ScenarioColumn == <<LinkB, LinkBX, LinkX>>
ScenarioAnswers ==
    [l \in {LinkB, LinkBX, LinkX, LinkRoot} |-> IF l \in {LinkB, LinkBX} THEN 200 ELSE 404]

\* The links a call of check_link_status may be given: the cells and what
\* shorten_url makes of them.
TaskLinks ==
    LET cells == CellURLs \cup {ScenarioColumn[r] : r \in DOMAIN ScenarioColumn}
    IN cells \cup {shorten_url(l) : l \in cells}

\* urlparse and shorten_url on TaskLinks, as functions: TLC evaluates a
\* function of the module once and not at every step that applies it.
Parsed == [l \in TaskLinks |-> urlparse(l)]
Shortened == [l \in TaskLinks |-> shorten_url(l)]
Cells == CellURLs \cup {NaN}

(***************************************************************************)
(* The normalisation of one cell: the bodies of the loops of               *)
(* update_links_to_https (lines 42-52) and remove_igshid_parameter (lines  *)
(* 119-128).  Each gives the cell after the turn and what the turn adds to *)
(* the counter of its function.                                            *)
(***************************************************************************)
igshid == <<"i", "g", "s", "h", "i", "d">>

\* Lines 42-52.  Both tests are on the cell as it was read; the second
\* assignment, when made, is the one that stays.
UpgradedCell(link) ==
    IF link = NaN THEN [cell |-> link, count |-> 0]
    ELSE LET relative == StartsWith(link, <<"/", "/">>)
             insecure == StartsWith(link, <<"h", "t", "t", "p", ":", "/", "/">>)
         IN [cell |-> IF insecure
                      THEN Replace(link, <<"h", "t", "t", "p", ":", "/", "/">>,
                                         <<"h", "t", "t", "p", "s", ":", "/", "/">>)
                      ELSE IF relative THEN <<"h", "t", "t", "p", "s", ":">> \o link
                      ELSE link,
             count |-> (IF relative THEN 1 ELSE 0) + (IF insecure THEN 1 ELSE 0)]

\* Lines 119-128.
StrippedCell(link) ==
    IF link = NaN THEN [cell |-> link, count |-> 0]
    ELSE LET parsed_url == urlparse(link)
             query_params == parse_qs(parsed_url.query)
         IN IF HasKey(query_params, igshid)
            THEN LET new_query == urlencode(DelKey(query_params, igshid))
                 IN [cell |-> urlunparse([parsed_url EXCEPT !.query = new_query]),
                     count |-> 1]
            ELSE [cell |-> link, count |-> 0]

\* The links of a column before normalisation: a head, then a query of at
\* most MaxParams parameters.
Heads ==
    {<<"/", "/", "a">>,
     <<"h", "t", "t", "p", ":", "/", "/", "a">>,
     <<"h", "t", "t", "p", "s", ":", "/", "/", "a", "/">>,
     <<"H", "t", "t", "p", ":", "/", "/", "a">>}

Params ==
    {igshid \o <<"=", "1">>, igshid \o <<"=">>,
     <<"b", "=", "1">>, <<"b", "=">>, <<"d", "=", "/">>}

Queries == {Join(q, "&") : q \in UNION {[1..n -> Params] : n \in 0..MaxParams}}

RawURLs == {h \o (IF Len(q) = 0 THEN <<>> ELSE <<"?">> \o q) : h \in Heads, q \in Queries}

StatusCodes == {200, 403, 404, 406, 429, 500}
Labels == {"Working", "Not Working"}

\* dict.get(k, default) and d[k] = v.
DictGet(d, k, default) == IF k \in DOMAIN d THEN d[k] ELSE default
DictSet(d, k, v) == [x \in DOMAIN d \cup {k} |-> IF x = k THEN v ELSE d[x]]
EmptyDict == [x \in {} |-> 0]

\* The sum of f over S.
RECURSIVE SumOver(_, _)
SumOver(f, S) ==
    IF S = {} THEN 0
    ELSE LET x == CHOOSE y \in S : TRUE
         IN f[x] + SumOver(f, S \ {x})

\* pool size of the executor.
max_workers == 10

VARIABLES
    df,                \* the column: row label -> cell
    links,             \* the list read_links returned
    test_websites,     \* the retry-mode setting
    verified_links,    \* the verification cache (dict)
    status_codes,      \* the status histogram (dict)
    detailed_results,  \* list of <<link, status, status_code>>
    working_count,
    not_working_count,
    main_pc,           \* position of the main thread
    tasks,             \* the futures, in submission order
    collected,         \* the futures as_completed has yielded
    raced,             \* history: some histogram write overwrote a value other than the one it read
    loaded,            \* history: the column as load_dataframe returned it
    counter,           \* the counters of the two normalisation passes
    removed_count,     \* the count of line 265
    json_file,         \* the time stamp in the name of the cache file
    files,             \* the cache files on disk: time stamp -> content
    run                \* history: the number of runs started

\* The variables of the script outside the batch of lines 279-290.
script_vars == <<loaded, counter, removed_count, json_file, files, run>>

vars == <<df, links, test_websites, verified_links, status_codes, detailed_results,
          working_count, not_working_count, main_pc, tasks, collected, raced,
          loaded, counter, removed_count, json_file, files, run>>

Rows == 1..MaxRows

\* Bound on the entries of the cache file found at start.
MaxLoaded == 1

\* Bound on the length of the links on which shorten_url is compared with itself.
MaxTail == 4

\* read_links: df[column_name].dropna().tolist().
RECURSIVE DropNa(_, _)
DropNa(col, r) ==
    IF r > Len(col) THEN <<>>
    ELSE IF col[r] = NaN THEN DropNa(col, r + 1)
    ELSE <<col[r]>> \o DropNa(col, r + 1)

read_links(col) == DropNa(col, 1)

\* The cache at start: json.load of the file when it exists, {} otherwise.
LoadedCaches ==
    UNION {[S -> Labels] : S \in {K \in SUBSET CellURLs : Cardinality(K) <= MaxLoaded}}

NoResult == [status |-> "none", status_code |-> unbound]

\* The state at line 279.  test_websites is the setting of line 235, which
\* check_link_status takes as a parameter: both values are covered.  print is
\* taken never to raise.
Init ==
    /\ df \in [Rows -> Cells]
    /\ links = read_links(df)
    /\ test_websites \in BOOLEAN
    /\ verified_links \in LoadedCaches
    /\ status_codes = EmptyDict
    /\ detailed_results = <<>>
    /\ working_count = 0
    /\ not_working_count = 0
    /\ main_pc = IF links = <<>> THEN "results" ELSE "submit"
    /\ tasks = <<>>
    /\ collected = {}
    /\ raced = FALSE
    /\ loaded = df
    /\ counter = [https |-> 0, igshid |-> 0]
    /\ removed_count = 0
    /\ json_file = 1
    /\ files = IF verified_links = EmptyDict THEN EmptyDict ELSE DictSet(EmptyDict, 1, verified_links)
    /\ run = 1

(***************************************************************************)
(* The main thread: lines 279-290.                                         *)
(***************************************************************************)
\* df.index[df[column_name] == link].tolist()
MatchingRows(col, link) == {r \in DOMAIN col : col[r] = link}

Min(S) == CHOOSE x \in S : \A y \in S : x <= y

\* The row a task is given: the first match.
FirstMatch(col, link) == Min(MatchingRows(col, link))

NewTask(index, link) ==
    [pc |-> "queued", index |-> index, link |-> link,
     frames |-> <<[link |-> link, status_code |-> unbound]>>,
     snap |-> 0, result |-> NoResult, calls |-> 0]

\* One iteration of the dict comprehension of line 280: the row lookup, then
\* executor.submit.  An empty lookup raises IndexError out of the script.
Submit ==
    /\ main_pc = "submit"
    /\ LET link == links[Len(tasks) + 1]
       IN IF MatchingRows(df, link) = {}
          THEN /\ main_pc' = "crashed"
               /\ tasks' = tasks
          ELSE /\ tasks' = Append(tasks, NewTask(FirstMatch(df, link), link))
               /\ main_pc' = IF Len(tasks) + 1 = Len(links) THEN "collect" ELSE "submit"
    /\ UNCHANGED <<df, links, test_websites, verified_links, status_codes,
                   detailed_results, working_count, not_working_count, collected, raced>>
    /\ UNCHANGED script_vars

\* Variant of Tally that counts the two labels of the cache and nothing else.
TallyLabelsOnly(status, counts) ==
    IF status = "Working" THEN [counts EXCEPT !.working = @ + 1]
    ELSE IF status = "Not Working" THEN [counts EXCEPT !.not_working = @ + 1]
    ELSE counts

\* Variant of Tally that tests for 'Not Working' instead of 'Working'.
TallyErrorAsWorking(status, counts) ==
    IF status # "Not Working" THEN [counts EXCEPT !.working = @ + 1]
    ELSE [counts EXCEPT !.not_working = @ + 1]

\* Lines 287-290: the counters after a completion with this status.
Tally(status, counts) ==
    IF status = "Working" THEN [counts EXCEPT !.working = @ + 1]
    ELSE [counts EXCEPT !.not_working = @ + 1]

\* Variant of Collect in which future.result() re-raises what the task met.
CollectReraises(t) ==
    /\ main_pc = "collect"
    /\ t \in DOMAIN tasks
    /\ t \notin collected
    /\ tasks[t].pc = "done"
    /\ collected' = collected \cup {t}
    /\ LET counts == Tally(tasks[t].result.status,
                           [working |-> working_count, not_working |-> not_working_count])
       IN /\ working_count' = counts.working
          /\ not_working_count' = counts.not_working
    /\ main_pc' = IF tasks[t].result.status = "Error" THEN "crashed"
                  ELSE IF collected' = DOMAIN tasks THEN "results" ELSE "collect"
    /\ UNCHANGED <<df, links, test_websites, verified_links, status_codes,
                   detailed_results, tasks, raced>>
    /\ UNCHANGED script_vars

\* One iteration of the as_completed loop, lines 281-290: process_link lets no
\* Exception out, so future.result() returns (link, status).
Collect(t) ==
    /\ main_pc = "collect"
    /\ t \in DOMAIN tasks
    /\ t \notin collected
    /\ tasks[t].pc = "done"
    /\ collected' = collected \cup {t}
    /\ LET counts == Tally(tasks[t].result.status,
                           [working |-> working_count, not_working |-> not_working_count])
       IN /\ working_count' = counts.working
          /\ not_working_count' = counts.not_working
    /\ main_pc' = IF collected' = DOMAIN tasks THEN "results" ELSE "collect"
    /\ UNCHANGED <<df, links, test_websites, verified_links, status_codes,
                   detailed_results, tasks, raced>>
    /\ UNCHANGED script_vars

(***************************************************************************)
(* The workers: process_link (lines 269-277) around check_link_status      *)
(* (lines 62-113).                                                         *)
(***************************************************************************)
Top(t) == tasks[t].frames[Len(tasks[t].frames)]

SetTask(t, rec) == tasks' = [tasks EXCEPT ![t] = rec]

Running == {t \in DOMAIN tasks : tasks[t].pc \notin {"queued", "done"}}

\* A pool thread takes the oldest queued task when fewer than max_workers run.
MayStart(t) ==
    /\ tasks[t].pc = "queued"
    /\ Cardinality(Running) < max_workers
    /\ \A u \in DOMAIN tasks : tasks[u].pc = "queued" => t <= u

\* Variant of CacheHit that trusts any cached entry.
CacheHitAnyEntry(cache, link) == link \in DOMAIN cache

\* Line 64: the cache short-circuits on "Working" alone.
CacheHit(cache, link) == link \in DOMAIN cache /\ cache[link] = "Working"

\* Lines 64-65, for the first call and for the recursive one.
CheckCache(t) ==
    /\ t \in DOMAIN tasks
    /\ tasks[t].pc = "check" \/ MayStart(t)
    /\ IF CacheHit(verified_links, Top(t).link)
       THEN SetTask(t, [tasks[t] EXCEPT
                !.pc = "append",
                !.result = [status |-> "Working", status_code |-> 200]])
       ELSE SetTask(t, [tasks[t] EXCEPT !.pc = "get"])
    /\ UNCHANGED <<df, links, test_websites, verified_links, status_codes,
                   detailed_results, working_count, not_working_count, main_pc,
                   collected, raced>>
    /\ UNCHANGED script_vars

\* requests.get answers only for http and https: any other scheme, or none,
\* raises MissingSchema / InvalidSchema, which are RequestExceptions.
adapter_schemes == {<<"h", "t", "t", "p">>, <<"h", "t", "t", "p", "s">>}

HasAdapter(link) == Parsed[link].scheme \in adapter_schemes

\* What line 73 may produce: a response with a status code, a
\* RequestException (transport failure), or any other exception.
ProbeOutcomes(link) ==
    {[kind |-> "transport", code |-> 0], [kind |-> "raise", code |-> 0]}
    \cup (IF HasAdapter(link)
          THEN {[kind |-> "response", code |-> c] : c \in StatusCodes}
          ELSE {})

\* Lines 73-74 and the two except paths (108, 273).
Probe(t) ==
    /\ t \in DOMAIN tasks
    /\ tasks[t].pc = "get"
    /\ \E o \in ProbeOutcomes(Top(t).link) :
          CASE o.kind = "response" ->
                 SetTask(t, [tasks[t] EXCEPT
                    !.pc = "hist_read",
                    !.calls = @ + 1,
                    !.frames[Len(tasks[t].frames)].status_code = o.code])
            [] o.kind = "transport" ->
                 SetTask(t, [tasks[t] EXCEPT !.pc = "exc_hist_read", !.calls = @ + 1])
            [] o.kind = "raise" ->
                 SetTask(t, [tasks[t] EXCEPT
                    !.pc = "append",
                    !.calls = @ + 1,
                    !.result = [status |-> "Error", status_code |-> 0]])
    /\ UNCHANGED <<df, links, test_websites, verified_links, status_codes,
                   detailed_results, working_count, not_working_count, main_pc,
                   collected, raced>>
    /\ UNCHANGED script_vars

\* The histogram key of the running update: the status code (line 75) or 0 (line 110).
HistKey(t) == IF tasks[t].pc \in {"exc_hist_read", "exc_hist_write"} THEN 0
              ELSE Top(t).status_code

\* status_codes.get(status_code, 0): the read half of lines 75 and 110.
HistRead(t) ==
    /\ t \in DOMAIN tasks
    /\ tasks[t].pc \in {"hist_read", "exc_hist_read"}
    /\ SetTask(t, [tasks[t] EXCEPT
          !.snap = DictGet(status_codes, HistKey(t), 0),
          !.pc = IF tasks[t].pc = "hist_read" THEN "hist_write" ELSE "exc_hist_write"])
    /\ UNCHANGED <<df, links, test_websites, verified_links, status_codes,
                   detailed_results, working_count, not_working_count, main_pc,
                   collected, raced>>
    /\ UNCHANGED script_vars

\* Variant of NoRetry without the comparison with the shortened link.
NoRetryUnlessDisabled(shortened_link, link, tw) == ~tw

\* Line 86: the 404 is final.
NoRetry(shortened_link, link, tw) == shortened_link = link \/ ~tw

\* Variant of Classify without the 429 branch.
ClassifyWithout429(status_code, link, tw) ==
    IF status_code = 200 THEN
        [retry |-> FALSE, status |-> "Working", order |-> "record_last"]
    ELSE IF status_code = 406 THEN
        [retry |-> FALSE, status |-> "Not Working", order |-> "record_first"]
    ELSE IF status_code = 404 THEN
        IF Shortened[link] = link \/ ~tw
        THEN [retry |-> FALSE, status |-> "Not Working", order |-> "clear_first"]
        ELSE [retry |-> TRUE, status |-> "none", order |-> "check"]
    ELSE IF status_code = 403 THEN
        IF tw
        THEN [retry |-> FALSE, status |-> "Working", order |-> "record_last"]
        ELSE [retry |-> FALSE, status |-> "Not Working", order |-> "record_first"]
    ELSE
        [retry |-> FALSE, status |-> "Not Working", order |-> "record_first"]

\* Lines 76-107: what a response with status_code leads to.  order names the
\* writes that follow: the cache alone, the cache then the cell, or the cell
\* then the cache.
Classify(status_code, link, tw) ==
    IF status_code = 200 THEN
        [retry |-> FALSE, status |-> "Working", order |-> "record_last"]
    ELSE IF status_code = 406 THEN
        [retry |-> FALSE, status |-> "Not Working", order |-> "record_first"]
    ELSE IF status_code = 404 THEN
        IF NoRetry(Shortened[link], link, tw)
        THEN [retry |-> FALSE, status |-> "Not Working", order |-> "clear_first"]
        ELSE [retry |-> TRUE, status |-> "none", order |-> "check"]
    ELSE IF status_code = 429 THEN
        [retry |-> FALSE, status |-> "Working", order |-> "record_last"]
    ELSE IF status_code = 403 THEN
        IF tw
        THEN [retry |-> FALSE, status |-> "Working", order |-> "record_last"]
        ELSE [retry |-> FALSE, status |-> "Not Working", order |-> "record_first"]
    ELSE
        [retry |-> FALSE, status |-> "Not Working", order |-> "record_first"]

\* The task after the histogram write of line 75: lines 76-107 up to the next
\* access to shared state.
AfterResponse(task, tw) ==
    LET top == task.frames[Len(task.frames)]
        c == Classify(top.status_code, top.link, tw)
    IN IF c.retry
       THEN [task EXCEPT
               !.pc = "check",
               !.frames = Append(@, [link |-> Shortened[top.link],
                                     status_code |-> unbound])]
       ELSE [task EXCEPT
               !.pc = c.order,
               !.result = [status |-> c.status, status_code |-> top.status_code]]

\* The task after the histogram write of line 110.
AfterTransportFailure(task) ==
    [task EXCEPT !.pc = "clear_first",
                 !.result = [status |-> "Not Working", status_code |-> 0]]

\* Variant of HistWrite that counts a response only when it is final.
HistWriteFinalOnly(t) ==
    /\ t \in DOMAIN tasks
    /\ tasks[t].pc \in {"hist_write", "exc_hist_write"}
    /\ LET k == IF tasks[t].pc = "exc_hist_write" THEN 0 ELSE Top(t).status_code
           final == \/ tasks[t].pc = "exc_hist_write"
                    \/ ~Classify(Top(t).status_code, Top(t).link, test_websites).retry
       IN /\ status_codes' = IF final THEN DictSet(status_codes, k, tasks[t].snap + 1)
                             ELSE status_codes
          /\ raced' = (raced \/ (final /\ DictGet(status_codes, k, 0) # tasks[t].snap))
    /\ IF tasks[t].pc = "hist_write"
       THEN SetTask(t, AfterResponse(tasks[t], test_websites))
       ELSE SetTask(t, AfterTransportFailure(tasks[t]))
    /\ UNCHANGED <<df, links, test_websites, verified_links, detailed_results,
                   working_count, not_working_count, main_pc, collected>>
    /\ UNCHANGED script_vars

\* status_codes[k] = <value read> + 1: the write half of lines 75 and 110.
HistWrite(t) ==
    /\ t \in DOMAIN tasks
    /\ tasks[t].pc \in {"hist_write", "exc_hist_write"}
    /\ status_codes' = DictSet(status_codes, HistKey(t), tasks[t].snap + 1)
    /\ raced' = (raced \/ DictGet(status_codes, HistKey(t), 0) # tasks[t].snap)
    /\ IF tasks[t].pc = "hist_write"
       THEN SetTask(t, AfterResponse(tasks[t], test_websites))
       ELSE SetTask(t, AfterTransportFailure(tasks[t]))
    /\ UNCHANGED <<df, links, test_websites, verified_links, detailed_results,
                   working_count, not_working_count, main_pc, collected>>
    /\ UNCHANGED script_vars

\* Variant of RecordedLink that names the link the task was submitted with.
RecordedLinkSubmitted(task) == task.link

\* The key of the cache write: link is the parameter of the running call, the
\* shortened link inside the recursive call.
RecordedLink(task) == task.frames[Len(task.frames)].link

\* verified_links[link] = <status>, for the link of the running call.
Record(t) ==
    /\ t \in DOMAIN tasks
    /\ tasks[t].pc \in {"record_first", "record_last"}
    /\ verified_links' =
          DictSet(verified_links, RecordedLink(tasks[t]), tasks[t].result.status)
    /\ SetTask(t, [tasks[t] EXCEPT
          !.pc = IF tasks[t].pc = "record_first" THEN "clear_last" ELSE "append"])
    /\ UNCHANGED <<df, links, test_websites, status_codes, detailed_results,
                   working_count, not_working_count, main_pc, collected, raced>>
    /\ UNCHANGED script_vars

\* Variant of ClearedRow that clears the row the messages name, index + 1.
ClearedRowPrinted(task) == task.index + 1

\* Variant of ClearedRow that clears the first row of the column.
ClearedRowFirst(task) == 1

\* The row df.at[index, column_name] = "" clears.
ClearedRow(task) == task.index

\* df.at[index, column_name] = "".
Clear(t) ==
    /\ t \in DOMAIN tasks
    /\ tasks[t].pc \in {"clear_first", "clear_last"}
    /\ df' = [df EXCEPT ![ClearedRow(tasks[t])] = EmptyString]
    /\ SetTask(t, [tasks[t] EXCEPT
          !.pc = IF tasks[t].pc = "clear_first" THEN "record_last" ELSE "append"])
    /\ UNCHANGED <<links, test_websites, verified_links, status_codes, detailed_results,
                   working_count, not_working_count, main_pc, collected, raced>>
    /\ UNCHANGED script_vars

\* Variant of AppendResult with the append inside the try block: a task that
\* ended in Error leaves no entry.
AppendResultUnlessError(t) ==
    /\ t \in DOMAIN tasks
    /\ tasks[t].pc = "append"
    /\ detailed_results' =
          IF tasks[t].result.status = "Error" THEN detailed_results
          ELSE Append(detailed_results,
                  <<tasks[t].link, tasks[t].result.status, tasks[t].result.status_code>>)
    /\ SetTask(t, [tasks[t] EXCEPT !.pc = "done"])
    /\ UNCHANGED <<df, links, test_websites, verified_links, status_codes,
                   working_count, not_working_count, main_pc, collected, raced>>
    /\ UNCHANGED script_vars

\* Lines 276-277: the entry of the detailed results; the future is done.
AppendResult(t) ==
    /\ t \in DOMAIN tasks
    /\ tasks[t].pc = "append"
    /\ detailed_results' = Append(detailed_results,
          <<tasks[t].link, tasks[t].result.status, tasks[t].result.status_code>>)
    /\ SetTask(t, [tasks[t] EXCEPT !.pc = "done"])
    /\ UNCHANGED <<df, links, test_websites, verified_links, status_codes,
                   working_count, not_working_count, main_pc, collected, raced>>
    /\ UNCHANGED script_vars

TaskIds == Rows \cup DOMAIN ScenarioColumn

Next ==
    \/ Submit
    \/ \E t \in TaskIds : Collect(t)
    \/ \E t \in TaskIds : CheckCache(t)
    \/ \E t \in TaskIds : Probe(t)
    \/ \E t \in TaskIds : HistRead(t)
    \/ \E t \in TaskIds : HistWrite(t)
    \/ \E t \in TaskIds : Record(t)
    \/ \E t \in TaskIds : Clear(t)
    \/ \E t \in TaskIds : AppendResult(t)

Spec == Init /\ [][Next]_vars

\* Every thread that can take a step is scheduled in the end, and requests.get
\* returns or raises within its timeout of 20 (line 73): the program does not
\* halt while a step is possible.
FairSpec == Spec /\ WF_vars(Next)

(***************************************************************************)
(* The run of the end-to-end scenario: the column is ScenarioColumn, no    *)
(* cache file exists, test_websites is True as line 235 sets it, and every *)
(* probe is answered as ScenarioAnswers says.                              *)
(***************************************************************************)
ScenarioInit ==
    /\ df = ScenarioColumn
    /\ links = read_links(df)
    /\ test_websites = TRUE
    /\ verified_links = EmptyDict
    /\ status_codes = EmptyDict
    /\ detailed_results = <<>>
    /\ working_count = 0
    /\ not_working_count = 0
    /\ main_pc = "submit"
    /\ tasks = <<>>
    /\ collected = {}
    /\ raced = FALSE
    /\ loaded = df
    /\ counter = [https |-> 0, igshid |-> 0]
    /\ removed_count = 0
    /\ json_file = 1
    /\ files = EmptyDict
    /\ run = 1

\* Probe, with the response the scenario gives for the link.
ScenarioProbe(t) ==
    /\ Probe(t)
    /\ tasks'[t].pc = "hist_read"
    /\ tasks'[t].frames[Len(tasks[t].frames)].status_code = ScenarioAnswers[Top(t).link]

ScenarioNext ==
    \/ Submit
    \/ \E t \in TaskIds : Collect(t)
    \/ \E t \in TaskIds : CheckCache(t)
    \/ \E t \in TaskIds : ScenarioProbe(t)
    \/ \E t \in TaskIds : HistRead(t)
    \/ \E t \in TaskIds : HistWrite(t)
    \/ \E t \in TaskIds : Record(t)
    \/ \E t \in TaskIds : Clear(t)
    \/ \E t \in TaskIds : AppendResult(t)

ScenarioSpec == ScenarioInit /\ [][ScenarioNext]_vars

(***************************************************************************)
(* The normalisation passes of the script, lines 248-267.                  *)
(***************************************************************************)
\* pd.read_excel / pd.read_csv of what save_dataframe wrote: an empty cell
\* is read as NaN.
load_dataframe(col) ==
    [r \in DOMAIN col |-> IF col[r] = EmptyString THEN NaN ELSE col[r]]

\* Lines 38-54: the column after the pass, and the counter it prints.
update_links_to_https(col) ==
    [df |-> [r \in DOMAIN col |-> UpgradedCell(col[r]).cell],
     counter |-> SumOver([r \in DOMAIN col |-> UpgradedCell(col[r]).count], DOMAIN col)]

\* Lines 115-130.
remove_igshid_parameter(col) ==
    [df |-> [r \in DOMAIN col |-> StrippedCell(col[r]).cell],
     counter |-> SumOver([r \in DOMAIN col |-> StrippedCell(col[r]).count], DOMAIN col)]

\* Line 265: df[column_name].str.contains('igshid').sum(); a NaN cell gives
\* NaN, which sum() skips.
ContainsCount(col) ==
    Cardinality({r \in DOMAIN col : col[r] # NaN /\ Contains(col[r], igshid)})

\* Lines 248-252.
Step1 ==
    /\ main_pc = "step1"
    /\ LET file == load_dataframe(df)
           pass == update_links_to_https(file)
       IN /\ loaded' = file
          /\ df' = pass.df
          /\ counter' = [counter EXCEPT !.https = pass.counter]
    /\ main_pc' = "step2"
    /\ UNCHANGED <<links, test_websites, verified_links, status_codes, detailed_results,
                   working_count, not_working_count, tasks, collected, raced,
                   removed_count, json_file, files, run>>

\* Lines 254-257.
Step2 ==
    /\ main_pc = "step2"
    /\ LET pass == remove_igshid_parameter(df)
       IN /\ df' = pass.df
          /\ counter' = [counter EXCEPT !.igshid = pass.counter]
    /\ main_pc' = "step3"
    /\ UNCHANGED <<links, test_websites, verified_links, status_codes, detailed_results,
                   working_count, not_working_count, tasks, collected, raced,
                   loaded, removed_count, json_file, files, run>>

\* Lines 259-267; with no link the pool has nothing to do.
Step3 ==
    /\ main_pc = "step3"
    /\ links' = read_links(df)
    /\ working_count' = 0
    /\ not_working_count' = 0
    /\ removed_count' = ContainsCount(df)
    /\ status_codes' = EmptyDict
    /\ detailed_results' = <<>>
    /\ main_pc' = IF links' = <<>> THEN "results" ELSE "submit"
    /\ UNCHANGED <<df, test_websites, verified_links, tasks, collected, raced,
                   loaded, counter, json_file, files, run>>

\* The script at line 248, with the file of any column of links not yet
\* normalised and no cache file.
NormInit ==
    /\ df \in [Rows -> RawURLs \cup {NaN}]
    /\ links = <<>>
    /\ test_websites = TRUE
    /\ verified_links = EmptyDict
    /\ status_codes = EmptyDict
    /\ detailed_results = <<>>
    /\ working_count = 0
    /\ not_working_count = 0
    /\ main_pc = "step1"
    /\ tasks = <<>>
    /\ collected = {}
    /\ raced = FALSE
    /\ loaded = df
    /\ counter = [https |-> 0, igshid |-> 0]
    /\ removed_count = unbound
    /\ json_file = 1
    /\ files = EmptyDict
    /\ run = 1

NormNext == Step1 \/ Step2 \/ Step3

NormSpec == NormInit /\ [][NormNext]_vars

(***************************************************************************)
(* Runs of the script one after the other: lines 232-246 at the start of a *)
(* run, lines 298-303 at its end.                                          *)
(***************************************************************************)
\* Lines 237-246: the name of the cache file carries the month, day, hour
\* and minute of the start; the run starts in the minute of the run before
\* or in a later one (stamp + 1).  The rest of the state is that of a new
\* process.
StartRun ==
    /\ main_pc \in {"start", "end"}
    /\ run < MaxRuns
    /\ \E stamp \in {json_file, json_file + 1} \ {0} :
          /\ json_file' = stamp
          /\ verified_links' = IF stamp \in DOMAIN files THEN files[stamp] ELSE EmptyDict
    /\ run' = run + 1
    /\ main_pc' = "step1"
    /\ links' = <<>>
    /\ status_codes' = EmptyDict
    /\ detailed_results' = <<>>
    /\ working_count' = 0
    /\ not_working_count' = 0
    /\ tasks' = <<>>
    /\ collected' = {}
    /\ raced' = FALSE
    /\ counter' = [https |-> 0, igshid |-> 0]
    /\ removed_count' = unbound
    /\ UNCHANGED <<df, test_websites, loaded, files>>

\* Lines 298-303: json.dump of the cache into the file named at the start;
\* df is saved as it is.
SaveCache ==
    /\ main_pc = "results"
    /\ files' = DictSet(files, json_file, verified_links)
    /\ main_pc' = "end"
    /\ UNCHANGED <<df, links, test_websites, verified_links, status_codes,
                   detailed_results, working_count, not_working_count, tasks,
                   collected, raced, loaded, counter, removed_count, json_file, run>>

\* Before the first run: the file of a column, and no cache file.
RunsInit ==
    /\ df \in [Rows -> Cells]
    /\ links = <<>>
    /\ test_websites = TRUE
    /\ verified_links = EmptyDict
    /\ status_codes = EmptyDict
    /\ detailed_results = <<>>
    /\ working_count = 0
    /\ not_working_count = 0
    /\ main_pc = "start"
    /\ tasks = <<>>
    /\ collected = {}
    /\ raced = FALSE
    /\ loaded = df
    /\ counter = [https |-> 0, igshid |-> 0]
    /\ removed_count = unbound
    /\ json_file = 0
    /\ files = EmptyDict
    /\ run = 0

RunsNext ==
    \/ StartRun
    \/ Step1
    \/ Step2
    \/ Step3
    \/ Submit
    \/ \E t \in TaskIds : Collect(t)
    \/ \E t \in TaskIds : CheckCache(t)
    \/ \E t \in TaskIds : Probe(t)
    \/ \E t \in TaskIds : HistRead(t)
    \/ \E t \in TaskIds : HistWrite(t)
    \/ \E t \in TaskIds : Record(t)
    \/ \E t \in TaskIds : Clear(t)
    \/ \E t \in TaskIds : AppendResult(t)
    \/ SaveCache

RunsSpec == RunsInit /\ [][RunsNext]_vars

(***************************************************************************)
(* Quantities the properties speak of.                                     *)
(***************************************************************************)
\* The sum of all counts of the histogram.
HistTotal == SumOver(status_codes, DOMAIN status_codes)

\* The probes of a task that were answered, by a response or by a transport
\* failure (a call that raised anything else has no result).
Answered(task) == task.calls - (IF task.result.status = "Error" THEN 1 ELSE 0)

\* The answered probes of a task whose histogram update has been written.
Written(task) ==
    Answered(task) - (IF task.pc \in {"hist_read", "hist_write",
                                      "exc_hist_read", "exc_hist_write"} THEN 1 ELSE 0)

\* The probes of a task that finalized its link.
Terminal(task) ==
    IF /\ task.pc \in {"record_first", "record_last", "clear_first", "clear_last",
                       "append", "done"}
       /\ task.result.status \in Labels
       /\ Written(task) = Len(task.frames)
    THEN 1 ELSE 0

AllDone == main_pc = "results"

TotalAnswered == SumOver([t \in DOMAIN tasks |-> Answered(tasks[t])], DOMAIN tasks)
TotalWritten == SumOver([t \in DOMAIN tasks |-> Written(tasks[t])], DOMAIN tasks)
TotalTerminal == SumOver([t \in DOMAIN tasks |-> Terminal(tasks[t])], DOMAIN tasks)

\* The task whose record changes in the step.
Acts(t) == t \in DOMAIN tasks /\ tasks'[t] # tasks[t]

(***************************************************************************)
(* C1.  Dispatcher conservation: the two counters always add up to the     *)
(* number of futures collected, every collection adds one to exactly one   *)
(* of them, and once all futures are collected they add up to the number   *)
(* of links.                                                               *)
(***************************************************************************)
C1_Conservation ==
    /\ [](/\ working_count + not_working_count = Cardinality(collected)
          /\ AllDone => /\ collected = 1..Len(links)
                        /\ working_count + not_working_count = Len(links))
    /\ [][collected' # collected =>
             \/ working_count' = working_count + 1 /\ not_working_count' = not_working_count
             \/ working_count' = working_count /\ not_working_count' = not_working_count + 1]_vars

\* A batch of two links is over with one Working, one Error.
C1_Witness ==
    /\ AllDone
    /\ Len(links) = 2
    /\ \E t \in DOMAIN tasks : tasks[t].result.status = "Error"
    /\ \E t \in DOMAIN tasks : tasks[t].result.status = "Working"

(***************************************************************************)
(* C2.  No step changes a cache entry from "Working" to anything else.     *)
(***************************************************************************)
C2_NeverDowngraded ==
    [][\A u \in DOMAIN verified_links :
          verified_links[u] = "Working" => verified_links'[u] = "Working"]_vars

(***************************************************************************)
(* C3.  No histogram increment is lost: when the batch is over the total   *)
(* of the histogram is the number of probes that were answered.            *)
(***************************************************************************)
C3_NoLostIncrement == AllDone => HistTotal = TotalAnswered

(***************************************************************************)
(* C4.  As claimed: when the batch is over (and no histogram write          *)
(* overwrote a concurrent one) the total of the histogram is the number of *)
(* probes that finalized a link.                                           *)
(***************************************************************************)
C4_TerminalProbesOnly == (AllDone /\ ~raced) => HistTotal = TotalTerminal

(***************************************************************************)
(* C4, amended.  The histogram counts every answered probe, the 404 probe  *)
(* that leads to the retry included: its total never exceeds the number of *)
(* histogram updates written, one per answered probe, and is that number   *)
(* as long as no write overwrote a value other than the one it had read.   *)
(***************************************************************************)
C4_EveryProbeCounted ==
    /\ HistTotal <= TotalWritten
    /\ ~raced => HistTotal = TotalWritten
    /\ AllDone => TotalWritten = TotalAnswered

\* A batch is over in which a link took the fallback: two probes, one final.
C4_Witness ==
    /\ AllDone
    /\ ~raced
    /\ \E t \in DOMAIN tasks : Len(tasks[t].frames) = 2 /\ tasks[t].calls = 2
    /\ HistTotal > TotalTerminal

(***************************************************************************)
(* C5.  Cache asymmetry: the step that runs line 64 returns ("Working",    *)
(* 200) without a probe and without touching histogram or dataset exactly   *)
(* when the cache holds "Working" for the link of the call; otherwise the  *)
(* call goes on to the probe.                                              *)
(***************************************************************************)
C5_CacheAsymmetry ==
    [][\A t \in DOMAIN tasks :
          (tasks[t].pc \in {"queued", "check"} /\ Acts(t)) =>
             LET link == Top(t).link
                 hit == link \in DOMAIN verified_links /\ verified_links[link] = "Working"
             IN IF hit
                THEN /\ tasks'[t].pc = "append"
                     /\ tasks'[t].result = [status |-> "Working", status_code |-> 200]
                     /\ tasks'[t].calls = tasks[t].calls
                     /\ UNCHANGED <<status_codes, df, verified_links>>
                ELSE /\ tasks'[t].pc = "get"
                     /\ tasks'[t].result = NoResult]_vars

\* A task was served from the cache: no probe, nothing counted.
C5_Witness ==
    \E t \in DOMAIN tasks :
       /\ tasks[t].pc = "done"
       /\ tasks[t].calls = 0
       /\ tasks[t].result = [status |-> "Working", status_code |-> 200]
       /\ HistTotal = 0

(***************************************************************************)
(* C6.  Shortening fallback bound: a check issues at most two probes and   *)
(* makes at most one recursive call, which is for the shortened form of    *)
(* the link and only when that form differs from it and retry is enabled;   *)
(* a final 404 is Not Working; and every step of a task lowers its rank,   *)
(* a natural number, so a check ends.                                      *)
(***************************************************************************)
Rank(task) ==
    (IF Len(task.frames) = 1 THEN 8 ELSE 0)
    + (CASE task.pc \in {"queued", "check"} -> 7
         [] task.pc = "get" -> 6
         [] task.pc \in {"hist_read", "exc_hist_read"} -> 5
         [] task.pc \in {"hist_write", "exc_hist_write"} -> 4
         [] task.pc \in {"record_first", "clear_first"} -> 3
         [] task.pc \in {"record_last", "clear_last"} -> 2
         [] task.pc = "append" -> 1
         [] task.pc = "done" -> 0)

\* The strings "http:" followed by at most MaxTail characters.
TailChars == {"/", "a", "?", "#", ":"}

RECURSIVE Tails(_)
Tails(n) ==
    IF n = 0 THEN {<<>>}
    ELSE LET shorter == Tails(n - 1)
         IN shorter \cup {Append(s, c) : s \in {x \in shorter : Len(x) = n - 1}, c \in TailChars}

ProbedURLs == {<<"h", "t", "t", "p", ":">> \o s : s \in Tails(MaxTail)}

\* Any link that can be answered (so can get a 404) shortens to a link that
\* shortens to itself.
ShortenedIsFixpoint ==
    \A u \in ProbedURLs \cup CellURLs :
       urlparse(u).scheme \in adapter_schemes =>
          shorten_url(shorten_url(u)) = shorten_url(u)

\* C6: at most two probes and one recursive call per check, a final 404 is
\* Not Working, and every step of a task lowers its rank.
C6_FallbackBound ==
    /\ ShortenedIsFixpoint
    /\ [](\A t \in DOMAIN tasks :
            /\ tasks[t].calls <= 2
            /\ Len(tasks[t].frames) <= 2
            /\ Len(tasks[t].frames) = 2 =>
                  /\ test_websites
                  /\ tasks[t].frames[1].status_code = 404
                  /\ tasks[t].frames[2].link = shorten_url(tasks[t].frames[1].link)
                  /\ tasks[t].frames[2].link # tasks[t].frames[1].link
            /\ (/\ Top(t).status_code = 404
                /\ tasks[t].pc \notin {"hist_read", "hist_write"}) =>
                  /\ shorten_url(Top(t).link) = Top(t).link \/ ~test_websites
                  /\ tasks[t].result = [status |-> "Not Working", status_code |-> 404])
    /\ [][\A t \in DOMAIN tasks : Acts(t) => Rank(tasks'[t]) < Rank(tasks[t])]_vars

\* A link got 404, then 404 on its shortened form, and is done after two probes.
C6_Witness ==
    \E t \in DOMAIN tasks :
       /\ tasks[t].pc = "done"
       /\ tasks[t].calls = 2
       /\ tasks[t].frames[1].status_code = 404
       /\ Top(t).status_code = 404

(***************************************************************************)
(* C7.  Classifier policy: every response that has been classified led to  *)
(* what the table of the specification gives for its status code and the   *)
(* retry mode, and only a 404 led to a recursive call.                     *)
(***************************************************************************)
PolicyTable(status, retry_mode, shortened_is_original) ==
    CASE status = 200 -> "Working"
      [] status = 406 -> "Not Working"
      [] status = 404 -> IF shortened_is_original \/ ~retry_mode
                         THEN "Not Working" ELSE "retry"
      [] status = 429 -> "Working"
      [] status = 403 -> IF retry_mode THEN "Working" ELSE "Not Working"
      [] OTHER -> "Not Working"

\* C7: every classified response has the outcome of PolicyTable, and only a
\* 404 is followed by a recursive call.
C7_ClassifierPolicy ==
    \A t \in DOMAIN tasks : \A k \in 1..Len(tasks[t].frames) :
       LET fr == tasks[t].frames[k]
           policy == PolicyTable(fr.status_code, test_websites,
                                 shorten_url(fr.link) = fr.link)
       IN (fr.status_code # unbound
           /\ (k < Len(tasks[t].frames) \/ tasks[t].pc \notin {"hist_read", "hist_write"}))
          => IF k < Len(tasks[t].frames)
             THEN policy = "retry" /\ fr.status_code = 404
             ELSE tasks[t].result = [status |-> policy, status_code |-> fr.status_code]

\* After a 404 and the retry, the shortened link answered 429: Working.
C7_Witness ==
    \E t \in DOMAIN tasks :
       /\ tasks[t].pc = "done"
       /\ Len(tasks[t].frames) = 2
       /\ Top(t).status_code = 429
       /\ tasks[t].result.status = "Working"

(***************************************************************************)
(* C8.  Dataset effect of a check: a cell changes only to the empty string,*)
(* only at the row index of the task that takes the step, and only when    *)
(* that task finalized Not Working; the outcome of a task never changes    *)
(* once set; and the cell at the index of a task that is done with Not     *)
(* Working is empty.                                                       *)
(***************************************************************************)
C8_DatasetEffect ==
    /\ [][/\ \A r \in Rows : df'[r] # df[r] =>
                /\ df'[r] = EmptyString
                /\ \E t \in DOMAIN tasks :
                      /\ Acts(t)
                      /\ tasks[t].index = r
                      /\ tasks[t].result.status = "Not Working"
          /\ \A t \in DOMAIN tasks :
                tasks[t].result # NoResult => tasks'[t].result = tasks[t].result]_vars
    /\ [](\A t \in DOMAIN tasks :
             (tasks[t].pc \in {"append", "done"} /\ tasks[t].result.status = "Not Working")
                => df[tasks[t].index] = EmptyString)

\* The task of row 2 is done with Not Working, row 2 is empty and row 1 is not.
C8_Witness ==
    \E t \in DOMAIN tasks :
       /\ tasks[t].pc = "done"
       /\ tasks[t].index = 2
       /\ tasks[t].result.status = "Not Working"
       /\ df[2] = EmptyString
       /\ df[1] \in CellURLs

(***************************************************************************)
(* C9.  Duplicate URLs: when the batch is over, the row of every           *)
(* occurrence whose task ended Not Working is empty.  The i-th link of the *)
(* list is the i-th cell of the column that is not NaN.                    *)
(***************************************************************************)
OccurrenceRow(i) ==
    CHOOSE r \in Rows :
       /\ df[r] # NaN
       /\ Cardinality({q \in Rows : q <= r /\ df[q] # NaN}) = i

\* C9: at the end of the batch the row of every occurrence that ended Not
\* Working is empty.
C9_OwnRowCleared ==
    AllDone =>
       \A i \in DOMAIN tasks :
          tasks[i].result.status = "Not Working" => df[OccurrenceRow(i)] = EmptyString

(***************************************************************************)
(* C10.  Error isolation: a task takes the outcome ("Error", 0) in a step  *)
(* that changes neither the dataset nor the cache nor the main thread nor  *)
(* any other task; a task with that outcome never writes the dataset or    *)
(* the cache, before or after; its collection adds one to                  *)
(* not_working_count and nothing to working_count; and the batch ends with *)
(* it collected.                                                           *)
(***************************************************************************)
C10_ErrorIsolation ==
    /\ [][\A t \in DOMAIN tasks :
            /\ (Acts(t) /\ tasks'[t].result.status = "Error") =>
                  /\ tasks'[t].result.status_code = 0
                  /\ UNCHANGED <<df, verified_links, main_pc, working_count,
                                 not_working_count, collected>>
                  /\ \A u \in DOMAIN tasks : u # t => tasks'[u] = tasks[u]
            /\ (Acts(t) /\ (df' # df \/ verified_links' # verified_links)) =>
                  tasks[t].result.status \in Labels
            /\ tasks[t].result # NoResult => tasks'[t].result = tasks[t].result
            /\ (tasks[t].result.status = "Error" /\ t \in collected' \ collected) =>
                  /\ not_working_count' = not_working_count + 1
                  /\ working_count' = working_count]_vars
    /\ [](AllDone => \A t \in DOMAIN tasks : t \in collected)

\* The batch is over; a task ended in Error on its fallback probe, its cell is
\* as it was, and the other task ended Working.
C10_Witness ==
    /\ AllDone
    /\ \E t \in DOMAIN tasks :
          /\ tasks[t].result = [status |-> "Error", status_code |-> 0]
          /\ Len(tasks[t].frames) = 2
          /\ df[tasks[t].index] = tasks[t].link
          /\ not_working_count = 1
          /\ \E u \in DOMAIN tasks : u # t /\ tasks[u].result.status = "Working"

(***************************************************************************)
(* C11.  Transport failure: a probe that ends in a RequestException adds   *)
(* exactly one to the histogram under key 0 and to no other key, finalizes *)
(* the link as ("Not Working", 0), then clears the cell of the task's row, *)
(* then records "Not Working" in the cache under the probed link, then     *)
(* appends its entry; no step of this path probes again or opens a         *)
(* recursive call.                                                         *)
(***************************************************************************)
TransportFailed(task) ==
    \/ task.pc \in {"exc_hist_read", "exc_hist_write"}
    \/ task.result = [status |-> "Not Working", status_code |-> 0]

C11_TransportFailure ==
    [][\A t \in TaskIds : (Acts(t) /\ TransportFailed(tasks[t])) =>
          /\ tasks'[t].frames = tasks[t].frames
          /\ tasks'[t].calls = tasks[t].calls
          /\ tasks'[t].pc \notin {"check", "get"}
          /\ tasks[t].pc = "exc_hist_write" =>
                /\ HistTotal' = HistTotal + 1
                /\ DictGet(status_codes', 0, 0) = DictGet(status_codes, 0, 0) + 1
                /\ tasks'[t].result = [status |-> "Not Working", status_code |-> 0]
                /\ tasks'[t].pc = "clear_first"
          /\ tasks[t].pc = "clear_first" =>
                /\ df' = [df EXCEPT ![tasks[t].index] = EmptyString]
                /\ tasks'[t].pc = "record_last"
          /\ tasks[t].pc = "record_last" =>
                /\ verified_links' =
                      DictSet(verified_links, Top(t).link, "Not Working")
                /\ tasks'[t].pc = "append"
          /\ tasks[t].pc = "append" =>
                /\ detailed_results' = Append(detailed_results,
                      <<tasks[t].link, "Not Working", 0>>)
                /\ tasks'[t].pc = "done"]_vars

(***************************************************************************)
(* C12.  Batch completion: under fair scheduling every link of the list    *)
(* gets a task, every task submitted ends up done and collected, and the   *)
(* main thread reaches the results; a future is collected only when done,  *)
(* one at a time and never twice, no task is ever removed, and a done      *)
(* task stays as it is, whatever the results of the others.                *)
(***************************************************************************)
C12_BatchCompletion ==
    /\ <>AllDone
    /\ \A t \in Rows : (t \in DOMAIN tasks) ~> (t \in collected /\ tasks[t].pc = "done")
    /\ [](AllDone => /\ Len(tasks) = Len(links)
                     /\ collected = DOMAIN tasks
                     /\ \A t \in DOMAIN tasks : tasks[t].pc = "done")
    /\ [][/\ collected' # collected =>
                \E t \in DOMAIN tasks :
                   /\ t \notin collected
                   /\ tasks[t].pc = "done"
                   /\ collected' = collected \cup {t}
          /\ \A t \in DOMAIN tasks :
                /\ t \in DOMAIN tasks'
                /\ tasks[t].pc = "done" => tasks'[t] = tasks[t]
          /\ main_pc' # "crashed"]_vars

\* Both futures collected, one of them ended in Error.
C12_Witness ==
    /\ AllDone
    /\ Len(tasks) = MaxRows
    /\ collected = DOMAIN tasks
    /\ \E t \in DOMAIN tasks : tasks[t].result.status = "Error"
    /\ \E t \in DOMAIN tasks : tasks[t].result.status = "Working"

(***************************************************************************)
(* C13.  Detailed results: the list has one entry per finished task at     *)
(* every moment, so none is lost; a step leaves the list as it is or adds  *)
(* one entry at its end; and after the batch the entries are, up to order, *)
(* the triples (submitted link, status, status code) of the tasks, one per *)
(* link of the list, whether the task was served from the cache, took the  *)
(* fallback or ended in Error.                                             *)
(***************************************************************************)
Entry(task) == <<task.link, task.result.status, task.result.status_code>>

Occurrences(seq, e) == Cardinality({i \in DOMAIN seq : seq[i] = e})

C13_DetailedResults ==
    /\ [](Len(detailed_results) =
             Cardinality({t \in DOMAIN tasks : tasks[t].pc = "done"}))
    /\ [](AllDone =>
             /\ Len(detailed_results) = Len(links)
             /\ \A t \in DOMAIN tasks :
                   /\ tasks[t].link = links[t]
                   /\ Occurrences(detailed_results, Entry(tasks[t])) =
                         Cardinality({u \in DOMAIN tasks : Entry(tasks[u]) = Entry(tasks[t])}))
    /\ [][\/ detailed_results' = detailed_results
          \/ \E t \in DOMAIN tasks :
                /\ tasks[t].pc = "append"
                /\ detailed_results' = Append(detailed_results, Entry(tasks[t]))]_vars

\* The batch is over: one task was served from the cache, the other took the
\* fallback, and each has its entry.
C13_Witness ==
    /\ AllDone
    /\ Len(detailed_results) = MaxRows
    /\ \E t \in DOMAIN tasks : tasks[t].calls = 0
    /\ \E t \in DOMAIN tasks :
          /\ Len(tasks[t].frames) = 2
          /\ \E i \in DOMAIN detailed_results :
                detailed_results[i] = Entry(tasks[t])

(***************************************************************************)
(* C19.  On the fallback path no step of the task touches the cache entry  *)
(* of the original link: its one cache write goes under the shortened      *)
(* link, which differs from the original.  A check of the original link    *)
(* that starts while the cache holds no "Working" for it goes on to the    *)
(* probe, whatever the cache holds for the shortened link.                 *)
(***************************************************************************)
C19_FallbackCacheKey ==
    [][\A t \in DOMAIN tasks :
          /\ (Acts(t) /\ Len(tasks[t].frames) = 2) =>
                LET original == tasks[t].frames[1].link
                    shortened == tasks[t].frames[2].link
                IN /\ shortened = shorten_url(original)
                   /\ shortened # original
                   /\ (original \in DOMAIN verified_links') =
                         (original \in DOMAIN verified_links)
                   /\ original \in DOMAIN verified_links =>
                         verified_links'[original] = verified_links[original]
                   /\ tasks[t].pc \in {"record_first", "record_last"} =>
                         verified_links' =
                            DictSet(verified_links, shortened, tasks[t].result.status)
          /\ (Acts(t) /\ tasks[t].pc = "queued"
                /\ ~(/\ tasks[t].link \in DOMAIN verified_links
                     /\ verified_links[tasks[t].link] = "Working")) =>
                tasks'[t].pc = "get"]_vars

\* A link took the fallback and ended Working: the cache holds the shortened
\* link and not the original, and a second task for the same link, served
\* nothing by the cache, has probed the original again.
C19_Witness ==
    \E t \in DOMAIN tasks, u \in DOMAIN tasks :
       /\ t < u
       /\ tasks[u].link = tasks[t].link
       /\ tasks[t].pc = "done"
       /\ Len(tasks[t].frames) = 2
       /\ tasks[t].result.status = "Working"
       /\ tasks[t].frames[2].link \in DOMAIN verified_links
       /\ verified_links[tasks[t].frames[2].link] = "Working"
       /\ tasks[t].link \notin DOMAIN verified_links
       /\ tasks[u].pc = "hist_read"
       /\ Len(tasks[u].frames) = 1
       /\ tasks[u].calls = 1

(***************************************************************************)
(* C20.  The row lookup of the submitting thread never comes back empty:   *)
(* the main thread never crashes, and while links remain to be submitted   *)
(* the next one is still in some row of the column, whatever cells the     *)
(* running tasks have cleared; the row handed to a task is the first of    *)
(* them and held the link of the task, and in the end every link of the    *)
(* list has its task.                                                      *)
(***************************************************************************)
C20_LookupFindsRow ==
    /\ [](main_pc # "crashed")
    /\ [](main_pc = "submit" => MatchingRows(df, links[Len(tasks) + 1]) # {})
    /\ [](main_pc \in {"collect", "results"} =>
             /\ Len(tasks) = Len(links)
             /\ \A t \in DOMAIN tasks : tasks[t].link = links[t])
    /\ [][Len(tasks') > Len(tasks) =>
             LET new == tasks'[Len(tasks')]
             IN /\ new.index = Min(MatchingRows(df, new.link))
                /\ df[new.index] = new.link]_vars

\* The first task has cleared its row while the second link, a duplicate of
\* the first, is still to be submitted: the lookup finds the second row.
C20_Witness ==
    /\ main_pc = "submit"
    /\ Len(tasks) = 1
    /\ df[tasks[1].index] = EmptyString
    /\ links[1] # EmptyString
    /\ links[2] = links[1]
    /\ MatchingRows(df, links[2]) = {MaxRows}

(***************************************************************************)
(* C18.  Fallback accounting, in the run of the scenario: when the batch   *)
(* is over the link answered 404 twice has added two to the histogram      *)
(* under 404, its cell is cleared, it has one entry in the detailed        *)
(* results and it is the one link counted not working; the histogram is    *)
(* {200: 2, 404: 2}, working_count is 2 and not_working_count is 1.        *)
(***************************************************************************)
C18_FallbackAccounting ==
    AllDone =>
       /\ tasks[3].calls = 2
       /\ tasks[3].result = [status |-> "Not Working", status_code |-> 404]
       /\ df = <<LinkB, LinkBX, EmptyString>>
       /\ Occurrences(detailed_results, <<LinkX, "Not Working", 404>>) = 1
       /\ Len(detailed_results) = 3
       /\ working_count = 2
       /\ not_working_count = 1
       /\ status_codes = [c \in {200, 404} |-> 2]

(***************************************************************************)
(* C14.  Cache persistence across runs: whenever a run starts after        *)
(* another, the cache it loads is the cache the run before wrote into its  *)
(* file at its end, so every link recorded "Working" there short-circuits  *)
(* its check in the new run.                                               *)
(***************************************************************************)
C14_CachePersists ==
    [][(run >= 1 /\ run' = run + 1) =>
          LET written == files[json_file]
          IN /\ written = verified_links
             /\ verified_links' = written
             /\ \A u \in DOMAIN written :
                   written[u] = "Working" => CacheHit(verified_links', u)]_vars

(***************************************************************************)
(* The cells the normalisation passes read and leave.                      *)
(***************************************************************************)
\* The column update_links_to_https read is `loaded`; the column
\* remove_igshid_parameter read is the one update_links_to_https left.
Upgraded == update_links_to_https(loaded).df

Normalised == main_pc \notin {"step1", "step2"}

\* normalize(x): the scheme upgrade followed by the igshid removal.
normalize(x) == StrippedCell(UpgradedCell(x).cell).cell

\* The parameters of a query as written: one per piece between "&", its
\* name before the first "=" and its value after it, empty values kept.
Parameter(piece) ==
    LET i == Find(piece, "=")
    IN IF i = 0 THEN [name |-> unquote_plus(piece), value |-> <<>>]
       ELSE [name |-> unquote_plus(SubSeq(piece, 1, i - 1)),
             value |-> unquote_plus(SubSeq(piece, i + 1, Len(piece)))]

Parameters(qs) ==
    IF Len(qs) = 0 THEN <<>>
    ELSE LET pieces == Split(qs, "&")
         IN [k \in DOMAIN pieces |-> Parameter(pieces[k])]

NotIgshid(parameter) == parameter.name # igshid

(***************************************************************************)
(* C15.  Removal metric: once the passes have run, removed_count, the      *)
(* count handed to the report, is the number of links from which the       *)
(* igshid removal took a parameter, and the counter of the scheme upgrade  *)
(* is the number of links whose scheme was rewritten.                      *)
(***************************************************************************)
C15_RemovalMetric ==
    main_pc \in {"submit", "results"} =>
       /\ removed_count = Cardinality({r \in DOMAIN df : df[r] # Upgraded[r]})
       /\ counter.https = Cardinality({r \in DOMAIN df : Upgraded[r] # loaded[r]})

(***************************************************************************)
(* C16.  Idempotence: normalising a normalised cell gives the same cell,   *)
(* so a second pass of the two functions over the column the first pass    *)
(* left changes no cell.                                                   *)
(***************************************************************************)
C16_Idempotent ==
    Normalised =>
       /\ \A r \in DOMAIN df : normalize(normalize(loaded[r])) = normalize(loaded[r])
       /\ remove_igshid_parameter(update_links_to_https(df).df).df = df

(***************************************************************************)
(* C17.  igshid removal: a cell whose query has a parameter named igshid   *)
(* is left with the other parameters of its query, with their names and    *)
(* values, in their order, and no parameter named igshid; a cell without   *)
(* one is left as it was.                                                  *)
(***************************************************************************)
C17_OnlyIgshidRemoved ==
    Normalised =>
       \A r \in DOMAIN df :
          Upgraded[r] # NaN =>
             LET before == Parameters(urlparse(Upgraded[r]).query)
                 after == Parameters(urlparse(df[r]).query)
             IN IF \E k \in DOMAIN before : before[k].name = igshid
                THEN after = SelectSeq(before, NotIgshid)
                ELSE df[r] = Upgraded[r]

====
